---- MODULE Spec2Model ----
(***************************************************************************)
(* Mass Spring Softbody (2D): the SoftBody grid of point masses, the       *)
(* spring-damper force accumulation and integration of update(), and the   *)
(* fixed-timestep scheduling of checkTime(), from "Mass Spring 2D/main.cpp".*)
(*                                                                         *)
(* Arithmetic.  Wall-clock time, timebase, accumulator and physicsStep are *)
(* integers counting milliseconds (0.012 s = 12, 0.25 s = 250), so the     *)
(* scheduler is modelled in exact arithmetic.  Lengths, velocities and     *)
(* forces are fixed-point integers with Scale units per 1.0f; a product or *)
(* quotient is rounded toward zero where a float would be rounded.         *)
(* A glm::vec3 is a record [x, y, z, nan]: nan is set when the components  *)
(* are IEEE NaN (glm::normalize of a zero vector) and propagates through   *)
(* every operation, as NaN does.                                           *)
(***************************************************************************)
EXTENDS Integers, Sequences, FiniteSets, TLC

\* ------------------------------------------------------------------------
\* Bounds of the model
\* ------------------------------------------------------------------------
\* number of main-loop iterations (frames) explored
MaxFrames == 2
\* number of glfwPollEvents calls that change the held keys / buttons
MaxInputChanges == 1

\* ------------------------------------------------------------------------
\* Program constants
\* ------------------------------------------------------------------------
\* fixed-point units per 1.0f
Scale == 10000
\* double physicsStep = 0.012 (milliseconds)
physicsStep == 12
\* the frame-delta limit 0.25 of checkTime (milliseconds)
MaxFrameDelta == 250
\* float coeff = 25.0f
coeff == 25
\* float damp = 0.5f, as DampNum / DampDen
DampNum == 1
DampDen == 2
\* the magnitude 2.0f of the external force, in fixed-point units
ForceMag == 20000
\* the result of a float division by zero (inf or NaN): a non-finite length
NonFinite == -1

\* wall-clock advances between two glfwGetTime() reads (milliseconds)
Deltas == {6, 12, 14, 29, 10000}

\* ------------------------------------------------------------------------
\* Scalars and vectors
\* ------------------------------------------------------------------------
Abs(a) == IF a < 0 THEN -a ELSE a

\* quotient rounded toward zero
Div(a, b) == IF (a < 0) = (b < 0) THEN Abs(a) \div Abs(b) ELSE -(Abs(a) \div Abs(b))

RECURSIVE SqrtSearch(_, _, _)
\* the largest r in lo..hi with r * r <= n
SqrtSearch(n, lo, hi) ==
    IF lo >= hi THEN lo
    ELSE LET mid == (lo + hi + 1) \div 2
         IN  IF mid * mid <= n THEN SqrtSearch(n, mid, hi)
                               ELSE SqrtSearch(n, lo, mid - 1)

Vec3(a, b, c) == [x |-> a, y |-> b, z |-> c, nan |-> FALSE]

ZeroVec == Vec3(0, 0, 0)

NaNVec == [x |-> 0, y |-> 0, z |-> 0, nan |-> TRUE]

VAdd(u, v) == IF u.nan \/ v.nan THEN NaNVec ELSE Vec3(u.x + v.x, u.y + v.y, u.z + v.z)

VSub(u, v) == IF u.nan \/ v.nan THEN NaNVec ELSE Vec3(u.x - v.x, u.y - v.y, u.z - v.z)

\* (num / den) * v
VScale(num, den, v) ==
    IF v.nan THEN NaNVec
    ELSE Vec3(Div(num * v.x, den), Div(num * v.y, den), Div(num * v.z, den))

Max(a, b) == IF a >= b THEN a ELSE b

\* glm::length, sqrt(dot(v, v)) rounded down; the root lies between the largest
\* component and the sum of the components.  The length of a NaN vector is
\* NaN, represented by NonFinite.
Length(v) ==
    IF v.nan THEN NonFinite
    ELSE SqrtSearch(v.x * v.x + v.y * v.y + v.z * v.z,
                    Max(Abs(v.x), Max(Abs(v.y), Abs(v.z))),
                    Abs(v.x) + Abs(v.y) + Abs(v.z))

\* glm::normalize: v * inversesqrt(dot(v, v)); 0 * inf = NaN for the zero vector.
\* The direction is in fixed point: Scale units for a unit vector.
Normalize(v) ==
    LET len == Length(v)
    IN  IF v.nan \/ len = 0 THEN NaNVec ELSE VScale(Scale, len, v)

\* ------------------------------------------------------------------------
\* RigidBody and SoftBody
\* ------------------------------------------------------------------------
\* RigidBody(pos, vel, acc, m)
RigidBody(pos, vel, acc, m) ==
    [mass |-> m,
     inverseMass |-> IF m = 0 THEN 0 ELSE 1 \div m,
     position |-> pos,
     velocity |-> vel,
     acceleration |-> acc,
     netForce |-> ZeroVec,
     netImpulse |-> ZeroVec]

\* float division width / subdivisions
FloatDiv(a, n) == IF n = 0 THEN NonFinite ELSE Div(a, n)

\* the indices <<i, j>> of bodies[i][j]: i over subY rows, j over subX columns
Nodes(subX, subY) == (0 .. subY - 1) \X (0 .. subX - 1)

\* the position the constructor gives bodies[i][j]
StartPosition(width, height, subX, subY, i, j) ==
    Vec3(Div(-width, 2) + FloatDiv(width, subX) * j,
         Div(-height, 2) + FloatDiv(height, subY) * i,
         0)

\* SoftBody(width, height, subX, subY, coeff, damp).  new[] of a negative
\* count throws, and the object is never built.
SoftBody(width, height, subX, subY) ==
    IF subY < 0 \/ (subY > 0 /\ subX < 0)
    THEN [status |-> "threw",
          subdivisionsX |-> subX, subdivisionsY |-> subY,
          restWidth |-> 0, restHeight |-> 0,
          bodies |-> [n \in {} |-> 0]]
    ELSE [status |-> "built",
          subdivisionsX |-> subX, subdivisionsY |-> subY,
          restWidth |-> FloatDiv(width, subX),
          restHeight |-> FloatDiv(height, subY),
          bodies |-> [n \in Nodes(subX, subY) |->
                        RigidBody(StartPosition(width, height, subX, subY, n[1], n[2]),
                                  ZeroVec, ZeroVec, 1)]]

\* ------------------------------------------------------------------------
\* update(dt): external force, force accumulation, integration
\* ------------------------------------------------------------------------
\* variant: the two button tests in the other order
ExternalForceLeftLast(shift, left, right) ==
    LET first  == IF right THEN -ForceMag ELSE 0
        second == IF left THEN ForceMag ELSE first
    IN  IF shift THEN Vec3(0, second, 0) ELSE Vec3(second, 0, 0)

\* glfwGetKey(LEFT_SHIFT), glfwGetMouseButton(0), glfwGetMouseButton(1) as
\* booleans: the local externalForce starts at zero on every call
ExternalForce(shift, left, right) ==
    LET first  == IF left THEN ForceMag ELSE 0
        second == IF right THEN -ForceMag ELSE first
    IN  IF shift THEN Vec3(0, second, 0) ELSE Vec3(second, 0, 0)

\* variant: if (i > 1)
HasAboveFromSecond(sb, i, j) == i > 1

\* the four tests "is there a rigidbody above / below / left / right"
HasAbove(sb, i, j) == i > 0

HasBelow(sb, i, j) == i < sb.subdivisionsY - 1

HasLeft(sb, i, j) == j > 0

HasRight(sb, i, j) == j < sb.subdivisionsX - 1

\* variant: restWidth for the vertical springs, restHeight for the horizontal
LinksRestSwapped(sb, i, j) ==
    (IF HasAbove(sb, i, j) THEN << <<i - 1, j, sb.restWidth>> >> ELSE << >>)
    \o (IF HasBelow(sb, i, j) THEN << <<i + 1, j, sb.restWidth>> >> ELSE << >>)
    \o (IF HasLeft(sb, i, j) THEN << <<i, j - 1, sb.restHeight>> >> ELSE << >>)
    \o (IF HasRight(sb, i, j) THEN << <<i, j + 1, sb.restHeight>> >> ELSE << >>)

\* the neighbours bodies[i][j] reads, in the order update() visits them, each
\* with the rest length of its spring
Links(sb, i, j) ==
    (IF HasAbove(sb, i, j) THEN << <<i - 1, j, sb.restHeight>> >> ELSE << >>)
    \o (IF HasBelow(sb, i, j) THEN << <<i + 1, j, sb.restHeight>> >> ELSE << >>)
    \o (IF HasLeft(sb, i, j) THEN << <<i, j - 1, sb.restWidth>> >> ELSE << >>)
    \o (IF HasRight(sb, i, j) THEN << <<i, j + 1, sb.restWidth>> >> ELSE << >>)

\* coefficient * (mag - rest) * direction - velocity * dampening
SpringForce(self, other, rest) ==
    LET displacement == VSub(other.position, self.position)
        direction == Normalize(displacement)
        mag == Length(displacement)
    IN  IF direction.nan THEN NaNVec
        ELSE VSub(VScale(coeff * (mag - rest), Scale, direction),
                  VScale(DampNum, DampDen, self.velocity))

RECURSIVE AddSprings(_, _, _, _)
\* netForce after the springs links[k..] have been added to force
AddSprings(sb, n, links, force) ==
    IF links = << >> THEN force
    ELSE LET l == Head(links)
         IN  AddSprings(sb, n, Tail(links),
                        VAdd(force, SpringForce(sb.bodies[n], sb.bodies[<<l[1], l[2]>>], l[3])))

\* variant: the external force goes to the last row
OnForcedRowLast(sb, i, j) == i = sb.subdivisionsY - 1

\* "if the vertex is on the bottom row, apply the external force"
OnForcedRow(sb, i, j) == i = 0

\* netForce of bodies[i][j] when the first loop of update() ends
AccumulatedForce(sb, n, externalForce) ==
    LET springs == AddSprings(sb, n, Links(sb, n[1], n[2]), sb.bodies[n].netForce)
    IN  IF OnForcedRow(sb, n[1], n[2]) THEN VAdd(springs, externalForce) ELSE springs

\* variant: the accumulators are not zeroed
ClearedForceKept(f) == f

\* what IntegrateLinear leaves in netForce and netImpulse
ClearedForce(f) == ZeroVec

\* milliseconds per second: dt reaches IntegrateLinear in seconds
MsPerSec == 1000

\* IntegrateLinear(dt, body), dt in milliseconds
IntegrateLinear(dt, b) ==
    LET acceleration == VScale(b.inverseMass, 1, b.netForce)
        v0dT == VScale(dt, MsPerSec, b.velocity)
        aT2 == VScale(dt * dt, 2 * MsPerSec * MsPerSec, acceleration)
    IN  [b EXCEPT !.acceleration = acceleration,
                  !.position = VAdd(b.position, VAdd(v0dT, aT2)),
                  !.velocity = VAdd(b.velocity,
                                    VAdd(VScale(dt, MsPerSec, acceleration),
                                         VScale(b.inverseMass, 1, b.netImpulse))),
                  !.netForce = ClearedForce(b.netForce),
                  !.netImpulse = ClearedForce(b.netImpulse)]

\* the SoftBody when the first loop of update() ends
Accumulated(sb, externalForce) ==
    [sb EXCEPT !.bodies = [n \in DOMAIN sb.bodies |->
        [sb.bodies[n] EXCEPT !.netForce = AccumulatedForce(sb, n, externalForce)]]]

\* the SoftBody when the second loop of update(dt) ends, acc being the
\* SoftBody its first loop left
Integrated(acc, dt) ==
    [acc EXCEPT !.bodies = [n \in DOMAIN acc.bodies |-> IntegrateLinear(dt, acc.bodies[n])]]

\* the Mesh main() builds for a grid of subX columns and subY rows (10 and 10
\* in main): one vertex per grid cell, row after row, spread over the unit
\* square
Lattice(subX, subY) ==
    IF subX <= 0 \/ subY <= 0
    THEN [numVertices |-> 0, vertices |-> [k \in {} |-> ZeroVec]]
    ELSE [numVertices |-> subX * subY,
          vertices |-> [k \in 0 .. subX * subY - 1 |->
                          Vec3(Div(Scale, subX) * (k % subX), Div(Scale, subY) * (k \div subX), 0)]]

\* int numVertex = i * body->subdivisionsY + j
NumVertex(sb, i, j) == i * sb.subdivisionsY + j

\* the bodies whose vertex index lies past the end of lattice->vertices
PastTheEnd(sb, mesh) ==
    {n \in DOMAIN sb.bodies : NumVertex(sb, n[1], n[2]) \notin DOMAIN mesh.vertices}

\* lattice->vertices when the second loop of update() ends, sb being the
\* SoftBody it leaves: the loop runs row after row, so of the bodies that
\* write one vertex the one of the last row writes last
WrittenVertices(mesh, sb) ==
    [k \in DOMAIN mesh.vertices |->
        LET writers == {n \in DOMAIN sb.bodies : NumVertex(sb, n[1], n[2]) = k}
        IN  IF writers = {} THEN mesh.vertices[k]
            ELSE sb.bodies[CHOOSE n \in writers : \A m \in writers : m[1] <= n[1]].position]

\* ------------------------------------------------------------------------
\* checkTime(): the three decisions of the scheduler
\* ------------------------------------------------------------------------
\* variant: if (dt >= physicsStep)
AcceptsEqual(dt) == dt >= physicsStep

\* if (dt > physicsStep)
Accepts(dt) == dt > physicsStep

\* variant: dt is not limited
LimitNone(dt) == dt

\* if (dt > 0.25) dt = 0.25
Limit(dt) == IF dt > MaxFrameDelta THEN MaxFrameDelta ELSE dt

\* variant: accumulator = dt
AccumulateOverwrite(acc, dt) == dt

\* accumulator += dt
Accumulate(acc, dt) == acc + dt

\* variant: while (accumulator > physicsStep)
MustUpdateStrict(acc) == acc > physicsStep

\* while (accumulator >= physicsStep)
MustUpdate(acc) == acc >= physicsStep

\* ------------------------------------------------------------------------
\* State
\* ------------------------------------------------------------------------
VARIABLES
    args,         \* the arguments <<width, height, subX, subY>> given to SoftBody
    body,         \* struct SoftBody* body
    lattice,      \* struct Mesh* lattice: numVertices and the positions in vertices
    time,         \* double time
    timebase,     \* double timebase
    accumulator,  \* double accumulator
    input,        \* the keys / buttons GLFW reports as held
    pc,           \* where main() is: "frame" (about to call checkTime), "drain"
                  \* (inside the while loop of checkTime), "poll" (checkTime has
                  \* returned), "threw" (the constructor threw), "crashed" (a
                  \* write past the end of lattice->vertices ended the run)
    frame,        \* history of the current checkTime call: dt, the accumulator
                  \* when it was called, the update() calls it has made
    last,         \* history of the latest update() call: its externalForce, the
                  \* neighbours every body read, the bodies the external force
                  \* was added to and the vertex index of every body
    hist          \* history of the run: frames started, update() calls, the sum
                  \* of the accepted limited deltas, whether a delta was limited,
                  \* whether an update() had a non-zero external force, and the
                  \* polls that changed the input

vars == <<args, body, lattice, time, timebase, accumulator, input, pc, frame, last, hist>>

\* grids main() could build: width, height (fixed point), subX, subY
ValidArgs ==
    { <<15000, 12000, 3, 3>>, <<10000, 8000, 2, 2>>, <<10000, 10000, 1, 1>>,
      <<15000, 8000, 3, 2>>, <<10000, 12000, 2, 3>> }

\* every argument list of the constructor, the degenerate ones included
AnyArgs == {0, 10000} \X {0, 8000} \X {-1, 0, 2} \X {-1, 0, 2}

NoInput == [shift |-> FALSE, left |-> FALSE, right |-> FALSE]

Inputs == [shift : BOOLEAN, left : BOOLEAN, right : BOOLEAN]

\* the state when main() enters its loop, for the constructor arguments a
InitWith(a) ==
    /\ args = a
    /\ body = SoftBody(a[1], a[2], a[3], a[4])
    /\ lattice = Lattice(a[3], a[4])
    /\ time = 0
    /\ timebase = 0
    /\ accumulator = 0
    /\ input = NoInput
    /\ pc = IF body.status = "built" THEN "frame" ELSE "threw"
    /\ frame = [dt |-> 0, before |-> 0, updates |-> 0]
    /\ last = [externalForce |-> ZeroVec,
               links |-> [n \in DOMAIN body.bodies |-> << >>],
               forced |-> {},
               vertex |-> [n \in DOMAIN body.bodies |-> 0]]
    /\ hist = [frames |-> 0, updates |-> 0, accepted |-> 0, limited |-> FALSE,
               forced |-> FALSE, inputChanges |-> 0]

Init == \E a \in ValidArgs : InitWith(a)

InitAny == \E a \in AnyArgs : InitWith(a)

\* ------------------------------------------------------------------------
\* Actions
\* ------------------------------------------------------------------------
\* checkTime() up to its while loop; d is the wall-clock time since the
\* previous glfwGetTime()
CheckTime(d) ==
    /\ pc = "frame"
    /\ hist.frames < MaxFrames
    /\ time' = time + d
    /\ LET dt == time' - timebase
       IN  /\ frame' = [dt |-> dt, before |-> accumulator, updates |-> 0]
           /\ IF Accepts(dt)
              THEN /\ timebase' = time'
                   /\ accumulator' = Accumulate(accumulator, Limit(dt))
                   /\ hist' = [hist EXCEPT !.frames = @ + 1,
                                           !.accepted = @ + Limit(dt),
                                           !.limited = @ \/ dt > MaxFrameDelta]
              ELSE /\ UNCHANGED <<timebase, accumulator>>
                   /\ hist' = [hist EXCEPT !.frames = @ + 1]
    /\ pc' = IF Accepts(time' - timebase) /\ MustUpdate(accumulator') THEN "drain" ELSE "poll"
    /\ UNCHANGED <<args, body, lattice, input, last>>

\* one iteration of the while loop: update(physicsStep); accumulator -= physicsStep.
\* A write past the end of lattice->vertices is undefined behaviour: either it
\* lands outside the state modelled here and the run goes on, or the run ends
\* inside update(), and nothing update() did is seen again.
Update ==
    /\ pc = "drain"
    /\ \/ /\ LET externalForce == ExternalForce(input.shift, input.left, input.right)
                  acc == Accumulated(body, externalForce)
              IN  /\ body' = Integrated(acc, physicsStep)
                  /\ last' = [externalForce |-> externalForce,
                              links |-> [n \in DOMAIN body.bodies |-> Links(body, n[1], n[2])],
                              forced |-> {n \in DOMAIN body.bodies : OnForcedRow(body, n[1], n[2])},
                              vertex |-> [n \in DOMAIN body.bodies |-> NumVertex(body, n[1], n[2])]]
                  /\ hist' = [hist EXCEPT !.updates = @ + 1,
                                          !.forced = @ \/ externalForce # ZeroVec]
          /\ lattice' = [lattice EXCEPT !.vertices = WrittenVertices(lattice, body')]
          /\ accumulator' = accumulator - physicsStep
          /\ frame' = [frame EXCEPT !.updates = @ + 1]
          /\ pc' = IF MustUpdate(accumulator') THEN "drain" ELSE "poll"
       \/ /\ PastTheEnd(body, lattice) # {}
          /\ pc' = "crashed"
          /\ UNCHANGED <<body, lattice, accumulator, frame, last, hist>>
    /\ UNCHANGED <<args, time, timebase, input>>

\* the rest of the loop body of main(): renderScene, glfwSwapBuffers and
\* glfwPollEvents, which alone changes what glfwGetKey / glfwGetMouseButton report
PollEvents(in) ==
    /\ pc = "poll"
    /\ \/ in = input /\ hist' = hist
       \/ /\ in # input
          /\ hist.inputChanges < MaxInputChanges
          /\ hist' = [hist EXCEPT !.inputChanges = @ + 1]
    /\ input' = in
    /\ pc' = "frame"
    /\ UNCHANGED <<args, body, lattice, time, timebase, accumulator, frame, last>>

Next ==
    \/ \E d \in Deltas : CheckTime(d)
    \/ Update
    \/ \E in \in Inputs : PollEvents(in)

Spec == Init /\ [][Next]_vars

\* the same program, the constructor called with any arguments
SpecAny == InitAny /\ [][Next]_vars

\* ------------------------------------------------------------------------
\* Properties
\* ------------------------------------------------------------------------
\* checkTime() is not running: it has returned, or has not been called yet
Returned == pc \in {"frame", "poll"}

Min(a, b) == IF a <= b THEN a ELSE b

\* the position SoftBody::SoftBody gave the body n
RestPosition(n) == StartPosition(args[1], args[2], args[3], args[4], n[1], n[2])

\* C1: whenever checkTime has returned, the update() calls made so far number
\* floor(S / physicsStep) and accumulator is S mod physicsStep, S being the sum
\* of min(dt, 0.25) over the accepted frames.
AccumulatorDrain ==
    Returned => /\ hist.updates = hist.accepted \div physicsStep
                /\ accumulator = hist.accepted % physicsStep

\* C1 witness: a frame of 6 ms was skipped, the next one (29 ms later) accepted
\* dt = 35 ms, ran two updates and left 11 ms
AccumulatorDrainWitness ==
    /\ pc = "poll"
    /\ hist.accepted = 35
    /\ frame.updates = 2
    /\ accumulator = 11

\* C2 as stated: one checkTime call invokes update() at most
\* floor(0.25 / physicsStep) times
ClampGuardStated == frame.updates <= MaxFrameDelta \div physicsStep

\* C2 amended: one checkTime call invokes update() at most
\* floor((0.25 + accumulator at the call) / physicsStep) times, which is at most
\* floor(0.25 / physicsStep) + 1
ClampGuard ==
    /\ frame.updates <= (MaxFrameDelta + frame.before) \div physicsStep
    /\ frame.updates <= MaxFrameDelta \div physicsStep + 1

\* C2 witness: a 10 s jump met a leftover accumulator and the frame ran
\* floor(0.25 / physicsStep) + 1 updates
ClampGuardWitness ==
    /\ pc = "poll"
    /\ frame.dt >= 10000
    /\ frame.before > 0
    /\ frame.updates = MaxFrameDelta \div physicsStep + 1

\* C3 as stated: a call with dt < physicsStep changes nothing and runs no
\* update; a call with dt >= physicsStep, dt = physicsStep included, sets
\* timebase, adds the limited dt to accumulator and runs at least one update
FrameEffectStated ==
    [][pc = "frame" =>
        IF time' - timebase < physicsStep
        THEN /\ UNCHANGED <<timebase, accumulator, body>>
             /\ pc' = "poll"
        ELSE /\ timebase' = time'
             /\ accumulator' = accumulator + Min(time' - timebase, MaxFrameDelta)
             /\ pc' = "drain"]_vars

\* C3 amended: a call with dt <= physicsStep changes nothing and runs no
\* update; a call with dt > physicsStep sets timebase to the reported time, adds
\* the limited dt to accumulator and runs at least one update
FrameEffect ==
    /\ [][pc = "frame" =>
            IF time' - timebase <= physicsStep
            THEN /\ UNCHANGED <<timebase, accumulator, body>>
                 /\ pc' = "poll"
            ELSE /\ timebase' = time'
                 /\ accumulator' = accumulator + Min(time' - timebase, MaxFrameDelta)
                 /\ pc' = "drain"]_vars
    /\ [](pc = "poll" => (frame.updates >= 1 <=> frame.dt > physicsStep))

\* C3 witness: a call with dt exactly physicsStep has returned without an
\* update and without moving timebase
FrameEffectWitness ==
    /\ pc = "poll"
    /\ frame.dt = physicsStep
    /\ frame.updates = 0
    /\ timebase = 0
    /\ time = physicsStep

\* C4: as long as no update() had a non-zero external force, every body has
\* the position the constructor gave it and zero velocity
RestFixedPoint ==
    ~hist.forced =>
        \A n \in DOMAIN body.bodies :
            /\ body.bodies[n].position = RestPosition(n)
            /\ body.bodies[n].velocity = ZeroVec

\* C4 witness: the 3 x 3 grid after 21 updates without external force
RestFixedPointWitness ==
    /\ ~hist.forced
    /\ hist.updates >= 21
    /\ body.subdivisionsX = 3
    /\ body.subdivisionsY = 3

\* C5: between update() calls, so whenever one returns and whenever one begins,
\* every body has netForce = 0 and netImpulse = 0
ForceAccumulatorsCleared ==
    \A n \in DOMAIN body.bodies :
        /\ body.bodies[n].netForce = ZeroVec
        /\ body.bodies[n].netImpulse = ZeroVec

\* C5 witness: an update() that integrated a non-zero force has returned
ForceAccumulatorsClearedWitness ==
    /\ hist.updates >= 2
    /\ \E n \in DOMAIN body.bodies : body.bodies[n].acceleration # ZeroVec

\* <<i, j>> is an index of bodies
InGrid(m) == m[1] \in 0 .. body.subdivisionsY - 1 /\ m[2] \in 0 .. body.subdivisionsX - 1

\* the four indices next to <<i, j>>
Adjacent(n) == { <<n[1] - 1, n[2]>>, <<n[1] + 1, n[2]>>, <<n[1], n[2] - 1>>, <<n[1], n[2] + 1>> }

\* the indices the body n read in the latest update()
LinksRead(n) == { <<last.links[n][k][1], last.links[n][k][2]>> : k \in 1 .. Len(last.links[n]) }

\* how many of the two coordinates of n lie on the border of an N x N grid
OnBorder(n, N) ==
    (IF n[1] \in {0, N - 1} THEN 1 ELSE 0) + (IF n[2] \in {0, N - 1} THEN 1 ELSE 0)

\* in an n x n grid a corner accumulated 2 contributions, another edge body 3,
\* an interior body 4
LinkCounts ==
    \A n \in DOMAIN body.bodies :
        Len(last.links[n]) = 4 - OnBorder(n, body.subdivisionsX)

\* a contribution is accumulated for each of the four neighbours exactly when
\* its index lies inside the grid, once, and nothing outside the grid is read
LinksInsideGrid ==
    \A n \in DOMAIN body.bodies :
        /\ LinksRead(n) = {m \in Adjacent(n) : InGrid(m)}
        /\ Len(last.links[n]) = Cardinality(LinksRead(n))

\* C6 as stated: the link counts hold in an n x n grid for every n, and the
\* links are the neighbours inside the grid
BoundaryLinksStated ==
    hist.updates >= 1 =>
        /\ LinksInsideGrid
        /\ body.subdivisionsX = body.subdivisionsY => LinkCounts

\* C6 amended: in one update() on an n x n grid with n >= 2 a corner body
\* accumulates from exactly 2 neighbours, another edge body from 3, an interior
\* body from 4 (the single body of a 1 x 1 grid accumulates from none); in every
\* grid a contribution is accumulated for a neighbour exactly when its index
\* lies inside the grid, and no body outside the grid is read
BoundaryLinks ==
    hist.updates >= 1 =>
        /\ LinksInsideGrid
        /\ (body.subdivisionsX = body.subdivisionsY /\ body.subdivisionsX >= 2) => LinkCounts
        /\ (body.subdivisionsX = 1 /\ body.subdivisionsY = 1) => last.links[<<0, 0>>] = << >>

\* C6 witness: an update() of the 3 x 3 grid in which the corner read 2
\* neighbours, the edge body 3 and the interior body 4
BoundaryLinksWitness ==
    /\ hist.updates >= 1
    /\ body.subdivisionsX = 3
    /\ body.subdivisionsY = 3
    /\ Len(last.links[<<0, 0>>]) = 2
    /\ Len(last.links[<<0, 1>>]) = 3
    /\ Len(last.links[<<1, 1>>]) = 4

\* C7: update() adds the external force to the bodies of row 0 and to no
\* other; after the first update() from the rest configuration the bodies of
\* row 0 were integrated with exactly the external force, and every body of a
\* row i >= 1 was integrated with no force, has zero velocity and is where the
\* constructor put it
ForcedRowOnly ==
    /\ hist.updates >= 1 => last.forced = {n \in DOMAIN body.bodies : n[1] = 0}
    /\ hist.updates = 1 =>
         \A n \in DOMAIN body.bodies :
            IF n[1] = 0
            THEN /\ body.bodies[n].acceleration = last.externalForce
                 /\ body.bodies[n].velocity =
                        Vec3((physicsStep * last.externalForce.x) \div MsPerSec,
                             (physicsStep * last.externalForce.y) \div MsPerSec, 0)
                 /\ last.externalForce # ZeroVec => body.bodies[n].velocity # ZeroVec
            ELSE /\ body.bodies[n].acceleration = ZeroVec
                 /\ body.bodies[n].velocity = ZeroVec
                 /\ body.bodies[n].position = RestPosition(n)

\* C7 witness: the first update() of a grid of three rows ran with a non-zero
\* external force
ForcedRowOnlyWitness ==
    /\ hist.updates = 1
    /\ last.externalForce # ZeroVec
    /\ body.subdivisionsY = 3
    /\ body.bodies[<<0, 0>>].velocity # ZeroVec

\* the value the controls give the selected axis
AxisValue ==
    IF input.left /\ ~input.right THEN ForceMag
    ELSE IF input.right /\ ~input.left THEN -ForceMag
    ELSE IF ~input.left /\ ~input.right THEN 0
    ELSE -ForceMag

\* C8: the external force of an update() is determined by the keys and buttons
\* held at that step: z is 0, without Left Shift y is 0 and x is the axis value,
\* with Left Shift x is 0 and y is the axis value; the axis value is +2.0 for the
\* left button alone, -2.0 for the right button alone, 0 for neither, -2.0 for both
ExternalForceByInput ==
    (pc \in {"drain", "poll"} /\ frame.updates >= 1) =>
        /\ last.externalForce.z = 0
        /\ ~last.externalForce.nan
        /\ ~input.shift => last.externalForce.y = 0 /\ last.externalForce.x = AxisValue
        /\ input.shift => last.externalForce.x = 0 /\ last.externalForce.y = AxisValue

\* C8 witness: an update() ran with Left Shift and both buttons held and
\* pushed along -y
ExternalForceByInputWitness ==
    /\ pc \in {"drain", "poll"}
    /\ frame.updates >= 1
    /\ input.shift /\ input.left /\ input.right
    /\ last.externalForce = Vec3(0, -ForceMag, 0)

\* C9: constructing the grid with a non-positive subdivision count or a zero
\* extent ends in an error, and no such grid is built
ConstructionFailsFast ==
    (args[3] <= 0 \/ args[4] <= 0 \/ args[1] = 0 \/ args[2] = 0) => body.status = "threw"

\* C10: as long as no accepted delta exceeded 0.25, whenever checkTime has
\* returned, updates * physicsStep + accumulator is timebase minus the initial
\* timebase (0), and the simulated time lags the reported time by less than
\* physicsStep plus the delta of the current frame if it was not accepted
NoTimeDiscarded ==
    (Returned /\ ~hist.limited) =>
        /\ hist.updates * physicsStep + accumulator = timebase
        /\ time - hist.updates * physicsStep
             < physicsStep + (IF frame.dt > physicsStep THEN 0 ELSE frame.dt)

\* C10 witness: after an accepted frame that left time in the accumulator, a
\* frame was skipped
NoTimeDiscardedWitness ==
    /\ pc = "poll"
    /\ ~hist.limited
    /\ hist.updates >= 1
    /\ accumulator > 0
    /\ frame.updates = 0
    /\ frame.dt > 0

\* the vertex indices of the mesh: 0 .. subdivisionsX * subdivisionsY - 1
VertexIndices == 0 .. body.subdivisionsX * body.subdivisionsY - 1

\* C11: in every grid, square or not, the vertex indices update() writes are a
\* bijection from the grid cells onto 0 .. subdivisionsX * subdivisionsY - 1:
\* no index lies outside the vertex array, no two bodies write one vertex,
\* every vertex is written, and so after an update() every body's position is
\* in its vertex
VertexBijection ==
    hist.updates >= 1 =>
        /\ \A n \in DOMAIN body.bodies : last.vertex[n] \in VertexIndices
        /\ \A n, m \in DOMAIN body.bodies : last.vertex[n] = last.vertex[m] => n = m
        /\ \A k \in VertexIndices : \E n \in DOMAIN body.bodies : last.vertex[n] = k
        /\ \A n \in DOMAIN body.bodies :
              /\ last.vertex[n] \in DOMAIN lattice.vertices
              /\ lattice.vertices[last.vertex[n]] = body.bodies[n].position
====
